---- MODULE Spec2Model ----
(***************************************************************************)
(* Batch CSV payment system (src/src/main.rs).                             *)
(*                                                                         *)
(* The run loop of main reads transaction records one at a time, hands     *)
(* each to process_transaction, stops at the first error and then writes   *)
(* the client accounts.  Amounts are integers (the source uses f32).       *)
(***************************************************************************)
EXTENDS Integers, Sequences, FiniteSets, TLC

\* ---------------------------------------------------------------- bounds
\* Longest input file read by one run.
MaxRecords == 3
Clients == {1, 2}
TxIds == {1, 2}
Amounts == {1, 2}
\* "refund" stands for any type string the match of process_transaction
\* does not know.
Kinds == {"deposit", "withdrawal", "dispute", "resolve", "chargeback", "refund"}

\* struct Transaction: one decoded CSV row.
Transaction == [type_name : Kinds, client_id : Clients, tx_id : TxIds, amount : Amounts]

VARIABLES
    client_list,       \* HashMap<u16, ClientAccount> of main
    transaction_list,  \* HashMap<u32, Transaction> of main
    pc,                \* position of main: "loop", "exit0", "exit_err"
    output,            \* the account mapping handed to write_accounts, <<>> before
    hist               \* the records handed to process_transaction so far, each
                       \* with its result and the two maps as they were before it

vars == <<client_list, transaction_list, pc, output, hist>>

\* An empty HashMap.
EmptyMap == <<>>

\* ---------------------------------------------------------------- helpers
\* ClientAccount::new
ClientAccount_new(in_client_id) ==
    [client_id |-> in_client_id, available |-> 0, held |-> 0, total |-> 0, locked |-> FALSE]

\* HashMap::insert
MapInsert(m, k, v) == [x \in (DOMAIN m) \cup {k} |-> IF x = k THEN v ELSE m[x]]

\* `if let Some(c) = list.get_mut(&k) { *c = v; }`
MapUpdate(m, k, v) == IF k \in DOMAIN m THEN [m EXCEPT ![k] = v] ELSE m

\* get_add_client that returns the new account without inserting it.
get_add_client_noInsert(in_id, in_client_list) ==
    IF in_id \notin DOMAIN in_client_list
    THEN [list   |-> in_client_list,
          client |-> ClientAccount_new(in_id)]
    ELSE [list   |-> in_client_list,
          client |-> in_client_list[in_id]]

\* get_add_client: the list after the call and the clone it returns.
get_add_client(in_id, in_client_list) ==
    IF in_id \notin DOMAIN in_client_list
    THEN [list   |-> MapInsert(in_client_list, in_id, ClientAccount_new(in_id)),
          client |-> ClientAccount_new(in_id)]
    ELSE [list   |-> in_client_list,
          client |-> in_client_list[in_id]]

\* add_transaction without the contains_key test: HashMap::insert replaces.
add_transaction_overwrite(in_current_tx, in_transaction_list) ==
    [list |-> MapInsert(in_transaction_list, in_current_tx.tx_id, in_current_tx),
     res  |-> "Ok"]

\* add_transaction: the list after the call and Ok / Err.
add_transaction(in_current_tx, in_transaction_list) ==
    IF in_current_tx.tx_id \in DOMAIN in_transaction_list
    THEN [list |-> in_transaction_list, res |-> "ErrExists"]
    ELSE [list |-> MapInsert(in_transaction_list, in_current_tx.tx_id, in_current_tx),
          res  |-> "Ok"]

\* What one call of process_transaction leaves behind.
Outcome(cl, tl, r) == [clients |-> cl, ledger |-> tl, res |-> r]

\* ---------------------------------------------------------------- variants
\* The arms below as a plausible slip would leave them; each is used to show
\* that a property depends on the arm it is stated about.

\* deposit that forgets `the_client.total += amount`.
deposit_noTotal(tx, cl, tl) ==
    LET g          == get_add_client(tx.client_id, cl)
        the_client == [g.client EXCEPT !.available = @ + tx.amount]
        cl2        == MapUpdate(g.list, tx.client_id, the_client)
        a          == add_transaction(tx, tl)
    IN  Outcome(cl2, a.list, a.res)

\* withdrawal that tests `available >= amount`.
withdrawal_nonStrict(tx, cl, tl) ==
    LET g          == get_add_client(tx.client_id, cl)
        the_client == [g.client EXCEPT !.available = @ - tx.amount,
                                       !.total     = @ - tx.amount]
        cl2        == MapUpdate(g.list, tx.client_id, the_client)
        a          == add_transaction(tx, tl)
    IN  IF g.client.available >= tx.amount
        THEN Outcome(cl2, a.list, a.res)
        ELSE Outcome(g.list, tl, "ErrFunds")

\* dispute that holds the amount of the dispute record, not of the stored one.
dispute_ownAmount(tx, cl, tl) ==
    LET g == get_add_client(tx.client_id, cl)
    IN  IF tx.tx_id \in DOMAIN tl
        THEN LET the_client == [g.client EXCEPT !.available = @ - tx.amount,
                                                !.held      = @ + tx.amount]
                 cl2        == MapUpdate(g.list, tx.client_id, the_client)
                 a          == add_transaction(tx, tl)
             IN  Outcome(cl2, a.list, a.res)
        ELSE Outcome(g.list, tl, "Ok")

\* dispute that calls add_transaction outside the `if let Some(p)`.
dispute_recordsMissing(tx, cl, tl) ==
    LET g == get_add_client(tx.client_id, cl)
        a == add_transaction(tx, tl)
    IN  IF tx.tx_id \in DOMAIN tl
        THEN LET p          == tl[tx.tx_id]
                 the_client == [g.client EXCEPT !.available = @ - p.amount,
                                                !.held      = @ + p.amount]
                 cl2        == MapUpdate(g.list, tx.client_id, the_client)
             IN  Outcome(cl2, a.list, a.res)
        ELSE Outcome(g.list, a.list, a.res)

\* resolve without the `p.type_name == "dispute"` test.
resolve_anyKind(tx, cl, tl) ==
    LET g == get_add_client(tx.client_id, cl)
    IN  IF tx.tx_id \in DOMAIN tl
        THEN LET p          == tl[tx.tx_id]
                 the_client == [g.client EXCEPT !.available = @ + p.amount,
                                                !.held      = @ - p.amount]
                 cl2        == MapUpdate(g.list, tx.client_id, the_client)
                 a          == add_transaction(tx, tl)
             IN  Outcome(cl2, a.list, a.res)
        ELSE Outcome(g.list, tl, "Ok")

\* chargeback without the `p.type_name == "dispute"` test.
chargeback_anyKind(tx, cl, tl) ==
    LET g == get_add_client(tx.client_id, cl)
    IN  IF tx.tx_id \in DOMAIN tl
        THEN LET p          == tl[tx.tx_id]
                 the_client == [g.client EXCEPT !.held   = @ - p.amount,
                                                !.total  = @ - p.amount,
                                                !.locked = TRUE]
                 cl2        == MapUpdate(g.list, tx.client_id, the_client)
                 a          == add_transaction(tx, tl)
             IN  Outcome(cl2, a.list, a.res)
        ELSE Outcome(g.list, tl, "Ok")

\* deposit that calls add_transaction before it touches the account.
deposit_checkFirst(tx, cl, tl) ==
    LET g          == get_add_client(tx.client_id, cl)
        the_client == [g.client EXCEPT !.available = @ + tx.amount,
                                       !.total     = @ + tx.amount]
        cl2        == MapUpdate(g.list, tx.client_id, the_client)
        a          == add_transaction(tx, tl)
    IN  IF a.res = "Ok"
        THEN Outcome(cl2, a.list, a.res)
        ELSE Outcome(g.list, tl, a.res)

\* dispute that holds the funds in the account of the stored entry's client.
dispute_ownerAccount(tx, cl, tl) ==
    LET g == get_add_client(tx.client_id, cl)
    IN  IF tx.tx_id \in DOMAIN tl
        THEN LET p          == tl[tx.tx_id]
                 h          == get_add_client(p.client_id, g.list)
                 the_client == [h.client EXCEPT !.available = @ - p.amount,
                                                !.held      = @ + p.amount]
                 cl2        == MapUpdate(h.list, p.client_id, the_client)
                 a          == add_transaction(tx, tl)
             IN  Outcome(cl2, a.list, a.res)
        ELSE Outcome(g.list, tl, "Ok")

\* dispute with the two updates of the resolve arm.
dispute_releases(tx, cl, tl) ==
    LET g == get_add_client(tx.client_id, cl)
    IN  IF tx.tx_id \in DOMAIN tl
        THEN LET p          == tl[tx.tx_id]
                 the_client == [g.client EXCEPT !.available = @ + p.amount,
                                                !.held      = @ - p.amount]
                 cl2        == MapUpdate(g.list, tx.client_id, the_client)
                 a          == add_transaction(tx, tl)
             IN  Outcome(cl2, a.list, a.res)
        ELSE Outcome(g.list, tl, "Ok")

\* ---------------------------------------------------------------- arms
\* "deposit" arm.
deposit(tx, cl, tl) ==
    LET g          == get_add_client(tx.client_id, cl)
        the_client == [g.client EXCEPT !.available = @ + tx.amount,
                                       !.total     = @ + tx.amount]
        cl2        == MapUpdate(g.list, tx.client_id, the_client)
        a          == add_transaction(tx, tl)
    IN  Outcome(cl2, a.list, a.res)

\* "withdrawal" arm.
withdrawal(tx, cl, tl) ==
    LET g          == get_add_client(tx.client_id, cl)
        the_client == [g.client EXCEPT !.available = @ - tx.amount,
                                       !.total     = @ - tx.amount]
        cl2        == MapUpdate(g.list, tx.client_id, the_client)
        a          == add_transaction(tx, tl)
    IN  IF g.client.available > tx.amount
        THEN Outcome(cl2, a.list, a.res)
        ELSE Outcome(g.list, tl, "ErrFunds")

\* "dispute" arm.
dispute(tx, cl, tl) ==
    LET g == get_add_client(tx.client_id, cl)
    IN  IF tx.tx_id \in DOMAIN tl
        THEN LET p          == tl[tx.tx_id]
                 the_client == [g.client EXCEPT !.available = @ - p.amount,
                                                !.held      = @ + p.amount]
                 cl2        == MapUpdate(g.list, tx.client_id, the_client)
                 a          == add_transaction(tx, tl)
             IN  Outcome(cl2, a.list, a.res)
        ELSE Outcome(g.list, tl, "Ok")

\* "resolve" arm.
resolve(tx, cl, tl) ==
    LET g == get_add_client(tx.client_id, cl)
    IN  IF tx.tx_id \in DOMAIN tl /\ tl[tx.tx_id].type_name = "dispute"
        THEN LET p          == tl[tx.tx_id]
                 the_client == [g.client EXCEPT !.available = @ + p.amount,
                                                !.held      = @ - p.amount]
                 cl2        == MapUpdate(g.list, tx.client_id, the_client)
                 a          == add_transaction(tx, tl)
             IN  Outcome(cl2, a.list, a.res)
        ELSE Outcome(g.list, tl, "Ok")

\* "chargeback" arm.
chargeback(tx, cl, tl) ==
    LET g == get_add_client(tx.client_id, cl)
    IN  IF tx.tx_id \in DOMAIN tl /\ tl[tx.tx_id].type_name = "dispute"
        THEN LET p          == tl[tx.tx_id]
                 the_client == [g.client EXCEPT !.held   = @ - p.amount,
                                                !.total  = @ - p.amount,
                                                !.locked = TRUE]
                 cl2        == MapUpdate(g.list, tx.client_id, the_client)
                 a          == add_transaction(tx, tl)
             IN  Outcome(cl2, a.list, a.res)
        ELSE Outcome(g.list, tl, "Ok")

\* process_transaction whose `_` arm skips the record instead of failing.
process_transaction_unknownIgnored(tx, cl, tl) ==
    CASE tx.type_name = "deposit"    -> deposit(tx, cl, tl)
      [] tx.type_name = "withdrawal" -> withdrawal(tx, cl, tl)
      [] tx.type_name = "dispute"    -> dispute(tx, cl, tl)
      [] tx.type_name = "resolve"    -> resolve(tx, cl, tl)
      [] tx.type_name = "chargeback" -> chargeback(tx, cl, tl)
      [] OTHER                       -> Outcome(cl, tl, "Ok")

\* process_transaction: the match on type_name.
process_transaction(tx, cl, tl) ==
    CASE tx.type_name = "deposit"    -> deposit(tx, cl, tl)
      [] tx.type_name = "withdrawal" -> withdrawal(tx, cl, tl)
      [] tx.type_name = "dispute"    -> dispute(tx, cl, tl)
      [] tx.type_name = "resolve"    -> resolve(tx, cl, tl)
      [] tx.type_name = "chargeback" -> chargeback(tx, cl, tl)
      [] OTHER                       -> Outcome(cl, tl, "ErrUnknown")

\* ---------------------------------------------------------------- run loop
Init ==
    /\ client_list = EmptyMap
    /\ transaction_list = EmptyMap
    /\ pc = "loop"
    /\ output = EmptyMap
    /\ hist = <<>>

\* What the loop body remembers of one record: the record, the result of
\* process_transaction and the two maps as they were before the call.
Entry(current_tx, o) ==
    [tx |-> current_tx, res |-> o.res, clients |-> client_list, ledger |-> transaction_list]

\* One iteration of `for current_record in csv_reader.deserialize()` whose
\* record decodes and whose process_transaction returns Ok.
ProcessRecord ==
    /\ pc = "loop"
    /\ Len(hist) < MaxRecords
    /\ \E current_tx \in Transaction :
         LET o == process_transaction(current_tx, client_list, transaction_list)
         IN  /\ o.res = "Ok"
             /\ client_list' = o.clients
             /\ transaction_list' = o.ledger
             /\ hist' = Append(hist, Entry(current_tx, o))
    /\ UNCHANGED <<pc, output>>

\* BreakOnError that hands write_accounts the client list as it was before the
\* failing record.
BreakOnError_rollback ==
    /\ pc = "loop"
    /\ Len(hist) < MaxRecords
    /\ \E current_tx \in Transaction :
         LET o == process_transaction(current_tx, client_list, transaction_list)
         IN  /\ o.res # "Ok"
             /\ hist' = Append(hist, Entry(current_tx, o))
    /\ client_list' = client_list
    /\ transaction_list' = transaction_list
    /\ output' = client_list
    /\ pc' = "exit0"

\* An iteration whose process_transaction returns Err: the error is printed,
\* the loop breaks, write_accounts gets the client list and main exits with 0.
BreakOnError ==
    /\ pc = "loop"
    /\ Len(hist) < MaxRecords
    /\ \E current_tx \in Transaction :
         LET o == process_transaction(current_tx, client_list, transaction_list)
         IN  /\ o.res # "Ok"
             /\ client_list' = o.clients
             /\ transaction_list' = o.ledger
             /\ hist' = Append(hist, Entry(current_tx, o))
             /\ output' = o.clients
    /\ pc' = "exit0"

\* An iteration whose record does not decode: process::exit(-1), nothing written.
DecodeError ==
    /\ pc = "loop"
    /\ Len(hist) < MaxRecords
    /\ pc' = "exit_err"
    /\ UNCHANGED <<client_list, transaction_list, output, hist>>

\* The reader is exhausted: write_accounts gets the client list, main exits with 0.
EndOfInput ==
    /\ pc = "loop"
    /\ output' = client_list
    /\ pc' = "exit0"
    /\ UNCHANGED <<client_list, transaction_list, hist>>

Next == ProcessRecord \/ BreakOnError \/ DecodeError \/ EndOfInput

Spec == Init /\ [][Next]_vars

\* main is one sequential thread: while it can take a step it takes one.
FairSpec == Spec /\ WF_vars(Next)

\* The for loop of main as a function of the records it is given: each record
\* in turn, up to and including the first whose process_transaction is Err.
RECURSIVE RunLoop(_, _, _)
RunLoop(txs, cl, tl) ==
    IF txs = <<>>
    THEN Outcome(cl, tl, "Ok")
    ELSE LET o == process_transaction(Head(txs), cl, tl)
         IN  IF o.res # "Ok" THEN o ELSE RunLoop(Tail(txs), o.clients, o.ledger)

\* ---------------------------------------------------------------- typing
Account == [client_id : Clients, available : Int, held : Int, total : Int, locked : BOOLEAN]

TypeOK ==
    /\ DOMAIN client_list \subseteq Clients
    /\ \A c \in DOMAIN client_list : client_list[c] \in Account /\ client_list[c].client_id = c
    /\ DOMAIN transaction_list \subseteq TxIds
    /\ \A t \in DOMAIN transaction_list :
         transaction_list[t] \in Transaction /\ transaction_list[t].tx_id = t
    /\ pc \in {"loop", "exit0", "exit_err"}
    /\ Len(hist) <= MaxRecords

\* ---------------------------------------------------------------- properties
Processed == Len(hist) > 0
Last == hist[Len(hist)]

\* The record a state is checked for: the one just processed.  Every earlier
\* record was the last one in an earlier state of the run, with the same entry.
Steps == IF Processed THEN {Len(hist)} ELSE {}

\* The client list / the ledger as record i left them.
After(i) == IF i = Len(hist) THEN client_list ELSE hist[i + 1].clients
LedgerAfter(i) == IF i = Len(hist) THEN transaction_list ELSE hist[i + 1].ledger

\* The account of client c in list cl; a client not yet seen has the balances
\* of the account get_add_client would create for it.
Bal(cl, c) == IF c \in DOMAIN cl THEN cl[c] ELSE ClientAccount_new(c)

\* Record i left the balances and the locked flag of every client as they were.
AccountsUntouched(i) == \A c \in Clients : Bal(After(i), c) = Bal(hist[i].clients, c)

DisputeKinds == {"dispute", "resolve", "chargeback"}

\* C1: in every reachable state, also the one an erroring record leaves
\* behind, every account has total = available + held.
C1_TotalIsAvailablePlusHeld ==
    \A c \in DOMAIN client_list :
        client_list[c].total = client_list[c].available + client_list[c].held

\* C1 witness: a record has returned an error and left an account with funds
\* held and a negative available balance.
C1_Witness ==
    /\ Processed
    /\ Last.res # "Ok"
    /\ \E c \in DOMAIN client_list :
         client_list[c].held > 0 /\ client_list[c].available < 0

\* C2 (as claimed): a Deposit of tx t followed by Dispute and Resolve of t by
\* the same client is processed by the run loop to the end, and leaves the
\* account as the Deposit left it (a fresh client: a, 0, a, unlocked).
C2_DisputeResolveRestores ==
    \A i \in 1..(Len(hist) - 1) :
        LET d == hist[i]
            q == hist[i + 1]
            c == d.tx.client_id
        IN  ( /\ d.tx.type_name = "deposit" /\ d.res = "Ok"
              /\ q.tx.type_name = "dispute"
              /\ q.tx.client_id = c /\ q.tx.tx_id = d.tx.tx_id )
            => /\ q.res = "Ok"
               /\ ( /\ i + 2 <= Len(hist)
                    /\ hist[i + 2].tx.type_name = "resolve"
                    /\ hist[i + 2].tx.client_id = c
                    /\ hist[i + 2].tx.tx_id = d.tx.tx_id )
                  => /\ After(i + 2)[c] = After(i)[c]
                     /\ c \notin DOMAIN d.clients
                        => After(i + 2)[c] = [client_id |-> c, available |-> d.tx.amount,
                                              held |-> 0, total |-> d.tx.amount,
                                              locked |-> FALSE]

\* C3 (as claimed): for a fresh client, a Deposit of tx t followed by Dispute
\* and Chargeback of t is processed by the run loop to the end, and leaves the
\* account at 0, 0, 0 and locked.
C3_DisputeChargebackLocks ==
    \A i \in 1..(Len(hist) - 1) :
        LET d == hist[i]
            q == hist[i + 1]
            c == d.tx.client_id
        IN  ( /\ d.tx.type_name = "deposit" /\ d.res = "Ok"
              /\ c \notin DOMAIN d.clients
              /\ q.tx.type_name = "dispute"
              /\ q.tx.client_id = c /\ q.tx.tx_id = d.tx.tx_id )
            => /\ q.res = "Ok"
               /\ ( /\ i + 2 <= Len(hist)
                    /\ hist[i + 2].tx.type_name = "chargeback"
                    /\ hist[i + 2].tx.client_id = c
                    /\ hist[i + 2].tx.tx_id = d.tx.tx_id )
                  => After(i + 2)[c] = [client_id |-> c, available |-> 0, held |-> 0,
                                        total |-> 0, locked |-> TRUE]

\* C4: locked is a one-way latch.  A record never takes an account from
\* locked to unlocked, and the only record that takes one from unlocked to
\* locked is a Chargeback by that client whose tx_id is in the ledger with
\* stored kind "dispute".
C4_LockedIsLatch ==
    \A i \in Steps : \A c \in Clients :
        LET e == hist[i]
            b == Bal(e.clients, c)
            a == Bal(After(i), c)
        IN  /\ b.locked => a.locked
            /\ (~b.locked /\ a.locked)
               => /\ e.tx.type_name = "chargeback"
                  /\ e.tx.client_id = c
                  /\ e.tx.tx_id \in DOMAIN e.ledger
                  /\ e.ledger[e.tx.tx_id].type_name = "dispute"

\* C4 witness: a Chargeback by a client with funds, against a tx_id of the
\* ledger, has been processed (the stored kind was not "dispute", and the
\* account is still unlocked).
C4_Witness ==
    /\ Processed
    /\ Last.tx.type_name = "chargeback"
    /\ Last.tx.tx_id \in DOMAIN Last.ledger
    /\ Last.tx.client_id \in DOMAIN Last.clients
    /\ Last.clients[Last.tx.client_id].total > 0
    /\ ~client_list[Last.tx.client_id].locked

\* C5 (as claimed): a record returns an error only if its kind is unknown, or
\* it is a Deposit/Withdrawal whose tx_id is in the ledger, or a Withdrawal
\* with insufficient funds; every Dispute, Resolve and Chargeback returns Ok.
C5_OnlyStructuralErrors ==
    \A i \in Steps :
        LET e == hist[i]
            k == e.tx.type_name
        IN  /\ e.res # "Ok"
               => \/ k \notin {"deposit", "withdrawal"} \cup DisputeKinds
                  \/ k \in {"deposit", "withdrawal"} /\ e.tx.tx_id \in DOMAIN e.ledger
                  \/ k = "withdrawal"
                     /\ ~(Bal(e.clients, e.tx.client_id).available > e.tx.amount)
            /\ k \in DisputeKinds => e.res = "Ok"

\* C6: a Dispute whose tx_id is in the ledger takes the stored amount
\* p.amount from the disputing client's available and adds it to held, with
\* total and locked as before; whatever amount the Dispute record carries,
\* the outcome is the same.
C6_DisputeHoldsStoredAmount ==
    \A i \in Steps :
        LET e == hist[i]
            c == e.tx.client_id
        IN  (e.tx.type_name = "dispute" /\ e.tx.tx_id \in DOMAIN e.ledger)
            => LET p == e.ledger[e.tx.tx_id]
                   b == Bal(e.clients, c)
                   a == After(i)[c]
               IN  /\ a.available = b.available - p.amount
                   /\ a.held = b.held + p.amount
                   /\ a.total = b.total
                   /\ a.locked = b.locked
                   /\ \A x \in Amounts :
                        process_transaction([e.tx EXCEPT !.amount = x],
                                            e.clients, e.ledger).clients = After(i)

\* C6 witness: a Dispute carrying an amount other than the stored one has
\* been applied to a tx_id of the ledger.
C6_Witness ==
    /\ Processed
    /\ Last.tx.type_name = "dispute"
    /\ Last.tx.tx_id \in DOMAIN Last.ledger
    /\ Last.tx.amount # Last.ledger[Last.tx.tx_id].amount
    /\ client_list[Last.tx.client_id].held = Last.ledger[Last.tx.tx_id].amount

\* C7: a Withdrawal whose amount is not below the client's available returns
\* the insufficient-funds error, leaves the balances and the locked flag of
\* every client as they were, and leaves the ledger as it was.
C7_InsufficientFundsNoMutation ==
    \A i \in Steps :
        LET e == hist[i]
        IN  ( /\ e.tx.type_name = "withdrawal"
              /\ ~(Bal(e.clients, e.tx.client_id).available > e.tx.amount) )
            => /\ e.res = "ErrFunds"
               /\ AccountsUntouched(i)
               /\ LedgerAfter(i) = e.ledger
               /\ e.tx.tx_id \notin DOMAIN e.ledger => e.tx.tx_id \notin DOMAIN LedgerAfter(i)

\* C7 witness: a Withdrawal of exactly the available balance, under a tx_id
\* not in the ledger, has been rejected.
C7_Witness ==
    /\ Processed
    /\ Last.tx.type_name = "withdrawal"
    /\ Last.tx.tx_id \notin DOMAIN Last.ledger
    /\ Bal(Last.clients, Last.tx.client_id).available = Last.tx.amount
    /\ Last.res = "ErrFunds"

\* C8: a Dispute, Resolve or Chargeback whose tx_id is not in the ledger
\* returns Ok and leaves the balances and the locked flag of every client and
\* the ledger as they were.
C8_MissingReferenceIgnored ==
    \A i \in Steps :
        LET e == hist[i]
        IN  (e.tx.type_name \in DisputeKinds /\ e.tx.tx_id \notin DOMAIN e.ledger)
            => /\ e.res = "Ok"
               /\ AccountsUntouched(i)
               /\ LedgerAfter(i) = e.ledger

\* C8 witness: a Dispute of a tx_id never seen has been processed for a
\* client holding funds, with another tx_id in the ledger.
C8_Witness ==
    /\ Processed
    /\ Last.tx.type_name = "dispute"
    /\ Last.tx.tx_id \notin DOMAIN Last.ledger
    /\ Last.ledger # EmptyMap
    /\ Bal(Last.clients, Last.tx.client_id).available > 0

\* C9: a Resolve or Chargeback whose tx_id is in the ledger with a stored
\* kind other than "dispute" returns Ok and changes nothing; a Resolve of
\* tx t replayed right after a Resolve of t leaves both maps exactly as the
\* first Resolve left them.
C9_ResolveNotDisputeIsNoOp ==
    \A i \in Steps :
        LET e == hist[i]
        IN  /\ ( /\ e.tx.type_name \in {"resolve", "chargeback"}
                 /\ e.tx.tx_id \in DOMAIN e.ledger
                 /\ e.ledger[e.tx.tx_id].type_name # "dispute" )
               => /\ e.res = "Ok"
                  /\ AccountsUntouched(i)
                  /\ LedgerAfter(i) = e.ledger
            /\ ( /\ i > 1
                 /\ e.tx.type_name = "resolve"
                 /\ hist[i - 1].tx = e.tx
                 /\ e.tx.tx_id \in DOMAIN e.ledger )
               => /\ e.res = "Ok"
                  /\ After(i) = After(i - 1)
                  /\ LedgerAfter(i) = LedgerAfter(i - 1)

\* C9 witness: a Resolve of a deposited tx has been replayed for a client
\* holding funds.
C9_Witness ==
    /\ Len(hist) >= 3
    /\ Last.tx.type_name = "resolve"
    /\ hist[Len(hist) - 1].tx = Last.tx
    /\ Last.tx.tx_id \in DOMAIN Last.ledger
    /\ Last.ledger[Last.tx.tx_id].client_id = Last.tx.client_id
    /\ client_list[Last.tx.client_id].available > 0

\* C10 (as claimed): a Deposit of amount a followed by a Withdrawal of a by
\* the same client, each under a tx_id not in the ledger, succeeds and leaves
\* available, held and total as they were before the Deposit.
C10_DepositWithdrawalRoundTrip ==
    \A i \in 1..(Len(hist) - 1) :
        LET d == hist[i]
            w == hist[i + 1]
            c == d.tx.client_id
        IN  ( /\ d.tx.type_name = "deposit"
              /\ d.tx.tx_id \notin DOMAIN d.ledger
              /\ w.tx.type_name = "withdrawal"
              /\ w.tx.client_id = c
              /\ w.tx.amount = d.tx.amount
              /\ w.tx.tx_id \notin DOMAIN w.ledger )
            => /\ d.res = "Ok"
               /\ w.res = "Ok"
               /\ After(i + 1)[c].available = Bal(d.clients, c).available
               /\ After(i + 1)[c].held = Bal(d.clients, c).held
               /\ After(i + 1)[c].total = Bal(d.clients, c).total

\* C11: the ledger is append-only.  An entry stored under a tx_id is still
\* there, unchanged, after every later record of any kind, and a Deposit or
\* Withdrawal that reuses the tx_id returns an error.
C11_LedgerAppendOnly ==
    \A i \in Steps :
        LET e == hist[i]
        IN  /\ \A t \in DOMAIN e.ledger :
                 t \in DOMAIN LedgerAfter(i) /\ LedgerAfter(i)[t] = e.ledger[t]
            /\ (e.tx.type_name \in {"deposit", "withdrawal"} /\ e.tx.tx_id \in DOMAIN e.ledger)
               => e.res # "Ok"

\* C11 witness: a Deposit reusing a stored tx_id, with another amount, has
\* been rejected and the stored entry is as it was.
C11_Witness ==
    /\ Processed
    /\ Last.tx.type_name = "deposit"
    /\ Last.tx.tx_id \in DOMAIN Last.ledger
    /\ Last.tx.amount # Last.ledger[Last.tx.tx_id].amount
    /\ Last.res = "ErrExists"
    /\ transaction_list[Last.tx.tx_id] = Last.ledger[Last.tx.tx_id]

\* The records read so far, in input order.
Records == [i \in 1..Len(hist) |-> hist[i].tx]

\* The safety half of C12.
C12_StopsAtFirstError ==
    /\ \A i \in 1..(Len(hist) - 1) : hist[i].res = "Ok"
    /\ (Processed /\ Last.res # "Ok") => pc = "exit0"
    /\ client_list = RunLoop(Records, EmptyMap, EmptyMap).clients
    /\ transaction_list = RunLoop(Records, EmptyMap, EmptyMap).ledger
    /\ pc = "exit0" => output = client_list
    /\ pc # "exit0" => output = EmptyMap

\* C12: the records are applied in input order up to and including the first
\* that returns an error and none after it; the accounts keep what the records
\* so far made of them (no rollback) and that mapping is what write_accounts
\* gets; and the run terminates.
C12_RunInOrderAndTerminates == []C12_StopsAtFirstError /\ <>(pc # "loop")

\* C12 witness: the run has stopped at an erroring record that came after
\* others, and write_accounts got the accounts with the change the erroring
\* record itself made.
C12_Witness ==
    /\ pc = "exit0"
    /\ Len(hist) >= 2
    /\ Last.res # "Ok"
    /\ Last.clients # EmptyMap
    /\ output = client_list
    /\ \E c \in DOMAIN Last.clients : output[c] # Last.clients[c]

KnownKinds == {"deposit", "withdrawal"} \cup DisputeKinds

\* What C13 says of record i: its client has an account afterwards, and for a
\* client not seen before the record acted on a zero, unlocked account (the
\* outcome is the one the record has on a list that already holds that
\* account; a record that is ignored or rejected before any write leaves
\* exactly the zero account).
ResolvesClient(i) ==
    LET e == hist[i]
        c == e.tx.client_id
        z == MapInsert(e.clients, c, ClientAccount_new(c))
    IN  /\ c \in DOMAIN After(i)
        /\ c \notin DOMAIN e.clients
           => /\ After(i) = process_transaction(e.tx, z, e.ledger).clients
              /\ After(i)[c].locked = FALSE
              /\ After(i)[c].total = After(i)[c].available + After(i)[c].held
              /\ ( \/ e.res = "ErrFunds"
                   \/ e.res = "ErrUnknown"
                   \/ e.tx.type_name \in DisputeKinds /\ e.res = "Ok" )
                 => After(i)[c] = ClientAccount_new(c)

\* C13 (as claimed): every record, whatever its kind, resolves its client.
C13_EveryRecordResolvesClient == \A i \in Steps : ResolvesClient(i)

\* C13 (amended): every record of a kind process_transaction knows resolves
\* its client, also when the record is then ignored or rejected.
C13_KnownKindResolvesClient ==
    \A i \in Steps : hist[i].tx.type_name \in KnownKinds => ResolvesClient(i)

\* C13 witness: a Withdrawal by a client not seen before has been rejected
\* and has left that client a zero account, beside another client's.
C13_Witness ==
    /\ Processed
    /\ Last.tx.type_name = "withdrawal"
    /\ Last.res = "ErrFunds"
    /\ Last.clients # EmptyMap
    /\ Last.tx.client_id \notin DOMAIN Last.clients
    /\ client_list[Last.tx.client_id] = ClientAccount_new(Last.tx.client_id)

\* C14: a record of a kind other than the five known ones returns the
\* unknown-type error, which ends the run, and leaves the client list (every
\* account, and the set of clients) and the ledger exactly as they were.
C14_UnknownKindRejected ==
    \A i \in Steps :
        LET e == hist[i]
        IN  e.tx.type_name \notin KnownKinds
            => /\ e.res = "ErrUnknown"
               /\ i = Len(hist) /\ pc = "exit0"
               /\ After(i) = e.clients
               /\ AccountsUntouched(i)
               /\ LedgerAfter(i) = e.ledger

\* C14 witness: a record of unknown kind has been rejected after a deposit,
\* for a client holding funds.
C14_Witness ==
    /\ Processed
    /\ Last.tx.type_name \notin KnownKinds
    /\ Last.ledger # EmptyMap
    /\ Bal(Last.clients, Last.tx.client_id).available > 0
    /\ Last.res = "ErrUnknown"

\* C15 (as claimed): once a Dispute of a tx_id stored as Deposit or
\* Withdrawal has been applied, the entry under that tx_id has kind "dispute"
\* and keeps the amount, so that a Resolve or Chargeback of it passes the test.
C15_DisputeMarksEntry ==
    \A i \in Steps :
        LET e == hist[i]
            t == e.tx.tx_id
        IN  ( /\ e.tx.type_name = "dispute"
              /\ t \in DOMAIN e.ledger
              /\ e.ledger[t].type_name \in {"deposit", "withdrawal"} )
            => /\ t \in DOMAIN LedgerAfter(i)
               /\ LedgerAfter(i)[t].type_name = "dispute"

\* C16: every ledger entry has kind deposit or withdrawal; no Resolve or
\* Chargeback changes the balances or the locked flag of any account; and no
\* account is locked.
C16_LedgerHoldsOnlyDepositsWithdrawals ==
    /\ \A t \in DOMAIN transaction_list :
         transaction_list[t].type_name \in {"deposit", "withdrawal"}
    /\ \A c \in DOMAIN client_list : ~client_list[c].locked
    /\ \A i \in Steps :
         hist[i].tx.type_name \in {"resolve", "chargeback"}
         => /\ AccountsUntouched(i)
            /\ LedgerAfter(i) = hist[i].ledger

\* C16 witness: a Dispute of a stored tx_id has been applied (funds are held)
\* after a Chargeback of the same tx_id, and the entry is still a deposit.
C16_Witness ==
    /\ Len(hist) >= 3
    /\ Last.tx.type_name = "dispute"
    /\ Last.tx.tx_id \in DOMAIN Last.ledger
    /\ hist[Len(hist) - 1].tx.type_name = "chargeback"
    /\ hist[Len(hist) - 1].tx.tx_id = Last.tx.tx_id
    /\ client_list[Last.tx.client_id].held > 0
    /\ transaction_list[Last.tx.tx_id].type_name = "deposit"

\* C17: a Deposit, or a Withdrawal with sufficient funds, whose tx_id is in
\* the ledger returns the duplicate-id error after the balance change is
\* written: available and total have moved by the record's amount, held and
\* locked have not, and the ledger is as it was.
C17_DuplicateErrorAfterBalanceChange ==
    \A i \in Steps :
        LET e == hist[i]
            c == e.tx.client_id
            b == Bal(e.clients, c)
            d == IF e.tx.type_name = "deposit" THEN e.tx.amount ELSE 0 - e.tx.amount
        IN  ( /\ e.tx.tx_id \in DOMAIN e.ledger
              /\ \/ e.tx.type_name = "deposit"
                 \/ e.tx.type_name = "withdrawal" /\ b.available > e.tx.amount )
            => /\ e.res = "ErrExists"
               /\ After(i)[c].available = b.available + d
               /\ After(i)[c].total = b.total + d
               /\ After(i)[c].held = b.held
               /\ After(i)[c].locked = b.locked
               /\ After(i) # e.clients
               /\ LedgerAfter(i) = e.ledger

\* C17 witness: a Withdrawal with sufficient funds reusing the tx_id of the
\* deposit has been rejected as a duplicate after taking the funds.
C17_Witness ==
    /\ Processed
    /\ Last.tx.type_name = "withdrawal"
    /\ Last.tx.tx_id \in DOMAIN Last.ledger
    /\ Last.res = "ErrExists"
    /\ client_list[Last.tx.client_id].available
         = Last.clients[Last.tx.client_id].available - Last.tx.amount

\* C18: a record changes at most the account of its own client_id: every
\* other client has the same account, or none, as before.  A Dispute by one
\* client of a tx_id stored for another holds the amount in the disputing
\* client's account.
C18_OnlyOwnAccountChanges ==
    \A i \in Steps :
        LET e == hist[i]
            c == e.tx.client_id
        IN  /\ \A o \in Clients \ {c} :
                 /\ o \in DOMAIN After(i) <=> o \in DOMAIN e.clients
                 /\ o \in DOMAIN e.clients => After(i)[o] = e.clients[o]
            /\ ( /\ e.tx.type_name = "dispute"
                 /\ e.tx.tx_id \in DOMAIN e.ledger
                 /\ e.ledger[e.tx.tx_id].client_id # c )
               => /\ After(i)[c].held = Bal(e.clients, c).held + e.ledger[e.tx.tx_id].amount
                  /\ After(i)[c].available
                       = Bal(e.clients, c).available - e.ledger[e.tx.tx_id].amount

\* C18 witness: client B has disputed a tx_id deposited by client A; A's
\* account still has the deposit available and B's holds the amount.
C18_Witness ==
    /\ Processed
    /\ Last.tx.type_name = "dispute"
    /\ Last.tx.tx_id \in DOMAIN Last.ledger
    /\ LET p == Last.ledger[Last.tx.tx_id]
       IN  /\ p.client_id # Last.tx.client_id
           /\ p.type_name = "deposit"
           /\ client_list[p.client_id].available = p.amount
           /\ client_list[p.client_id].held = 0
           /\ client_list[Last.tx.client_id].held = p.amount

\* C19: with strictly positive amounts, held >= 0 for every account in every
\* reachable state (available >= 0 is not an invariant: see the witness).
C19_HeldNonNegative ==
    /\ \A a \in Amounts : a > 0
    /\ \A c \in DOMAIN client_list : client_list[c].held >= 0

\* C19 witness: after a deposit and a partial withdrawal, a Dispute of the
\* deposit has been applied by the same, unlocked client and has left
\* available below zero.
C19_Witness ==
    /\ Len(hist) = 3
    /\ hist[1].tx.type_name = "deposit"
    /\ hist[2].tx.type_name = "withdrawal"
    /\ hist[2].tx.client_id = hist[1].tx.client_id
    /\ hist[2].tx.amount < hist[1].tx.amount
    /\ Last.tx.type_name = "dispute"
    /\ Last.tx.client_id = hist[1].tx.client_id
    /\ Last.tx.tx_id = hist[1].tx.tx_id
    /\ client_list[Last.tx.client_id].available < 0
    /\ client_list[Last.tx.client_id].held = hist[1].tx.amount

====
